---- MODULE Spec2Model ----
\* Model of the Geebot voice/text billing assistant:
\*   src/app.py               Streamlit script (startup, handlers, session state)
\*   src/utils/llm_utils.py   LLMProcessor (run_agent_step, _lazy_init, ...)
\*   src/utils/mock_data.py   flat-file mock store (accounts, policies, tickets)
\*   src/utils/audio_utils.py AudioProcessor (transcribe_audio, text_to_speech)
\*
\* Text is modelled as a sequence of tokens: a token is either one character of
\* a value ("A", "1", " ") or one literal piece of a Python f-string.  Python /
\* JSON values are records [t, s, d]: t the type tag, s the characters of a
\* str, d the (key, value) pairs of a dict in insertion order.
EXTENDS Integers, Sequences, FiniteSets, TLC

\* ------------------------------------------------------------------ bounds
MaxMessages == 4
MaxTickets == 2
MaxTime == 1

\* ------------------------------------------------------------ Python values
V_null == [t |-> "null", s |-> <<>>, d |-> <<>>]
V_str(chars) == [t |-> "str", s |-> chars, d |-> <<>>]
V_list == [t |-> "list", s |-> <<>>, d |-> <<>>]
V_dict(pairs) == [t |-> "dict", s |-> <<>>, d |-> pairs]
\* marks a key that is left out of a JSON object; never a value of the program
Missing == [t |-> "missing", s |-> <<>>, d |-> <<>>]

\* Python truthiness of a value (x or {}, if transcript:, if not api_key)
Truthy(v) ==
    CASE v.t = "null" -> FALSE
      [] v.t = "str" -> v.s # <<>>
      [] v.t = "list" -> TRUE
      [] v.t = "dict" -> v.d # <<>>
      [] OTHER -> FALSE

\* dict.get(key, default)
RECURSIVE PairsGet(_, _, _)
PairsGet(pairs, key, default) ==
    IF pairs = <<>> THEN default
    ELSE IF pairs[1][1] = key THEN pairs[1][2]
    ELSE PairsGet(Tail(pairs), key, default)

DictGet(v, key, default) == PairsGet(v.d, key, default)

\* repr() of a value, and of the items of a dict
RECURSIVE PyRepr(_)
RECURSIVE ReprItems(_)
PyRepr(v) ==
    CASE v.t = "null" -> <<"None">>
      [] v.t = "str" -> <<"'">> \o v.s \o <<"'">>
      [] v.t = "list" -> <<"[", "1", "]">>
      [] v.t = "dict" -> <<"{">> \o ReprItems(v.d) \o <<"}">>
      [] OTHER -> <<>>

ReprItems(pairs) ==
    IF pairs = <<>> THEN <<>>
    ELSE <<"'", pairs[1][1], "'", ": ">> \o PyRepr(pairs[1][2])
         \o (IF Len(pairs) > 1 THEN <<", ">> ELSE <<>>)
         \o ReprItems(Tail(pairs))

\* str() of a value, as an f-string interpolates it
PyStr(v) == IF v.t = "str" THEN v.s ELSE PyRepr(v)

\* json.dumps of a value: the text the service emits for a JSON document
RECURSIVE JsonText(_)
RECURSIVE JsonItems(_)
JsonText(v) ==
    CASE v.t = "null" -> <<"null">>
      [] v.t = "str" -> <<"\"">> \o v.s \o <<"\"">>
      [] v.t = "list" -> <<"[", "1", "]">>
      [] v.t = "dict" -> <<"{">> \o JsonItems(v.d) \o <<"}">>
      [] OTHER -> <<>>

JsonItems(pairs) ==
    IF pairs = <<>> THEN <<>>
    ELSE <<"\"", pairs[1][1], "\"", ":">> \o JsonText(pairs[1][2])
         \o (IF Len(pairs) > 1 THEN <<",">> ELSE <<>>)
         \o JsonItems(Tail(pairs))

\* str.strip(): drop leading and trailing whitespace
Whitespace == {" ", "\n"}

RECURSIVE lstrip(_)
lstrip(text) ==
    IF text # <<>> /\ text[1] \in Whitespace THEN lstrip(Tail(text)) ELSE text

RECURSIVE rstrip(_)
rstrip(text) ==
    IF text # <<>> /\ text[Len(text)] \in Whitespace
    THEN rstrip(SubSeq(text, 1, Len(text) - 1)) ELSE text

strip(text) == rstrip(lstrip(text))

\* substring test (sub in text)
Contains(text, sub) ==
    \E i \in 1..(Len(text) - Len(sub) + 1) : SubSeq(text, i, i + Len(sub) - 1) = sub

\* --------------------------------------------------------- input universe
A1 == <<"A", "1">>
A9 == <<"A", "9">>
P1 == <<"P", "1">>
P9 == <<"P", "9">>
Billing == <<"b", "i", "l", "l">>
Hello == <<"H", "e", "l", "l", "o">>

\* a JSON object {"action": action, "args": args}; Missing leaves the key out
Obj(action, args) ==
    V_dict((IF action = Missing THEN <<>> ELSE << <<"action", action>> >>)
           \o (IF args = Missing THEN <<>> ELSE << <<"args", args>> >>))

Arg1(k, v) == V_dict(<< <<k, v>> >>)
Arg2(k1, v1, k2, v2) == V_dict(<< <<k1, v1>>, <<k2, v2>> >>)

AccountArgs ==
    { Missing, V_null, V_dict(<<>>), V_list,
      Arg1("account_id", V_str(A1)), Arg1("account_id", V_str(A9)) }
PolicyArgs ==
    { Missing, V_dict(<<>>), Arg1("policy_key", V_str(P1)), Arg1("policy_key", V_str(P9)) }
TicketArgs ==
    { Missing, Arg1("account_id", V_str(A1)),
      Arg2("account_id", V_str(A1), "issue", V_str(Billing)),
      Arg2("account_id", V_str(A9), "issue", V_str(Billing)) }
FinalArgs ==
    { Missing, V_null, V_dict(<<>>), V_list,
      Arg1("text", V_str(Hello)), Arg1("text", V_str(<<>>)), Arg1("text", V_null) }
OtherArgs == { Missing, Arg1("account_id", V_str(A1)) }

\* the JSON documents the text-generation service may emit
JsonDocs ==
    { Obj(V_str(<<"lookup_account">>), a) : a \in AccountArgs }
    \cup { Obj(V_str(<<"lookup_policy">>), a) : a \in PolicyArgs }
    \cup { Obj(V_str(<<"create_ticket">>), a) : a \in TicketArgs }
    \cup { Obj(V_str(<<"respond_final">>), a) : a \in FinalArgs }
    \cup { Obj(V_str(<<"escalate">>), a) : a \in OtherArgs }
    \cup { Obj(Missing, Arg1("text", V_str(Hello))) }
    \cup { V_list, V_null }

FencedDoc == Obj(V_str(<<"respond_final">>), Arg1("text", V_str(Hello)))
PaddedDoc == Obj(V_str(<<"create_ticket">>),
                 Arg2("account_id", V_str(A1), "issue", V_str(Billing)))

\* completions that are not JSON: empty, prose, a fenced document, a truncated one
NonJsonTexts ==
    { <<>>,
      <<"S", "o", "r", "r", "y">>,
      <<"[code fence]json", "\n">> \o JsonText(FencedDoc) \o <<"\n", "[code fence]">>,
      SubSeq(JsonText(FencedDoc), 1, Len(JsonText(FencedDoc)) - 1) }

\* every completion string resp.text may hold
Completions ==
    { JsonText(v) : v \in JsonDocs }
    \cup NonJsonTexts
    \cup { <<" ">> \o JsonText(PaddedDoc) \o <<"\n">>,
           <<"\n">> \o <<"S", "o", "r", "r", "y">> \o <<" ">> }

\* json.loads(raw): the document whose text raw is, or a JSONDecodeError
JsonTexts == { <<JsonText(v), v>> : v \in JsonDocs }

json_loads(raw) ==
    IF \E e \in JsonTexts : e[1] = raw
    THEN [ok |-> TRUE, value |-> (CHOOSE e \in JsonTexts : e[1] = raw)[2]]
    ELSE [ok |-> FALSE, value |-> V_null]

\* ------------------------------------------------- utils/mock_data.py
\* The mock directory: file name -> parsed JSON document.  accounts.json and
\* policies.json map a key to an opaque record; tickets.json is {"tickets": [..]}.
GoldPlan == V_dict(<< <<"plan", V_str(<<"g", "o", "l", "d">>)>> >>)
RefundPolicy == V_str(<<"3", "0", "d">>)

InitialFiles ==
    ("accounts.json" :> (A1 :> GoldPlan))
    @@ ("policies.json" :> (P1 :> RefundPolicy))
    @@ ("tickets.json" :> ("tickets" :> <<>>))

load_json(fs, name) == fs[name]

save_json(fs, name, data) == [fs EXCEPT ![name] = data]

\* dict.get(key) on a loaded document whose keys are strings
DocGet(doc, key) ==
    IF key.t = "str" /\ key.s \in DOMAIN doc THEN doc[key.s] ELSE V_null

\* get_account reading the wrong document
get_account_from_policies(fs, account_id) ==
    LET accounts == load_json(fs, "policies.json")
    IN  DocGet(accounts, account_id)

get_account(fs, account_id) ==
    LET accounts == load_json(fs, "accounts.json")
    IN  DocGet(accounts, account_id)

get_policy(fs, policy_key) ==
    LET policies == load_json(fs, "policies.json")
    IN  DocGet(policies, policy_key)

TicketRecord(account_id, issue, now) ==
    [account |-> account_id, issue |-> issue, generated_on |-> now]

TicketCreated == <<"Ticket created.">>

\* create_ticket writing a document that holds the new record only
create_ticket_overwriting(fs, account_id, issue, now) ==
    LET tickets == load_json(fs, "tickets.json")
        replaced == [tickets EXCEPT !["tickets"] =
                        << TicketRecord(account_id, issue, now) >>]
    IN  [files |-> save_json(fs, "tickets.json", replaced),
         ret |-> V_str(TicketCreated)]

\* returns the files after the call and the value returned
create_ticket(fs, account_id, issue, now) ==
    LET tickets == load_json(fs, "tickets.json")
        appended == [tickets EXCEPT !["tickets"] =
                        Append(@, TicketRecord(account_id, issue, now))]
    IN  [files |-> save_json(fs, "tickets.json", appended),
         ret |-> V_str(TicketCreated)]

\* ------------------------------------------------- utils/llm_utils.py
Return(v) == [kind |-> "return", val |-> v, exc |-> "none"]
Raise(e) == [kind |-> "raise", val |-> V_null, exc |-> e]

default_system_prompt == <<"You are Geebot, ... Output strictly one JSON object">>

\* LLMProcessor._lazy_init: the model handle afterwards, or the ValueError
_lazy_init(mdl, api_key) ==
    IF mdl # "None" THEN [raised |-> FALSE, model |-> mdl]
    ELSE IF ~Truthy(api_key) THEN [raised |-> TRUE, model |-> mdl]
    ELSE [raised |-> FALSE, model |-> "GenerativeModel"]

\* the prompt of run_agent_step: system prompt, flattened history, utterance
RECURSIVE history_text(_)
history_text(history) ==
    IF history = <<>> THEN <<>>
    ELSE PyStr(history[1].role) \o <<": ">> \o PyStr(history[1].content) \o <<"\n">>
         \o history_text(Tail(history))

AgentPrompt(user_text, history) ==
    default_system_prompt \o <<"\n\nConversation so far:\n">>
    \o history_text(history) \o <<"user: ">> \o user_text \o <<"\n">>

FinalFallback == <<"I'm returning a final response, but no text was provided.">>

\* result of the part of run_agent_step after json.loads succeeded
Branch(outcome, ops, fs) == [outcome |-> outcome, ops |-> ops, files |-> fs]

\* args.get(key) of the dispatch branches: args must have a .get
LookupAccountBranch(args, fs) ==
    IF args.t # "dict" THEN Branch(Raise("AttributeError"), <<>>, fs)
    ELSE LET account_id == DictGet(args, "account_id", V_null)
             result == get_account(fs, account_id)
         IN  Branch(Return(V_str(<<"Here's what I found for account ">> \o PyStr(account_id)
                                 \o <<":\n">> \o PyStr(result))),
                    <<"get_account">>, fs)

LookupPolicyBranch(args, fs) ==
    IF args.t # "dict" THEN Branch(Raise("AttributeError"), <<>>, fs)
    ELSE LET policy_key == DictGet(args, "policy_key", V_null)
             result == get_policy(fs, policy_key)
         IN  Branch(Return(V_str(<<"Here's the policy for ">> \o PyStr(policy_key)
                                 \o <<":\n">> \o PyStr(result))),
                    <<"get_policy">>, fs)

CreateTicketBranch(args, fs, now) ==
    IF args.t # "dict" THEN Branch(Raise("AttributeError"), <<>>, fs)
    ELSE LET account_id == DictGet(args, "account_id", V_null)
             issue == DictGet(args, "issue", V_null)
             created == create_ticket(fs, account_id, issue, now)
         IN  Branch(Return(V_str(<<"I've created support ticket ">> \o PyStr(created.ret)
                                 \o <<" for account ">> \o PyStr(account_id)
                                 \o <<" about: ">> \o PyStr(issue))),
                    <<"create_ticket">>, created.files)

\* respond_final written as args.get("text") or fallback
RespondFinalBranch_or_fallback(args, fs) ==
    IF args.t # "dict" THEN Branch(Raise("AttributeError"), <<>>, fs)
    ELSE LET text == DictGet(args, "text", V_null)
         IN  Branch(Return(IF Truthy(text) THEN text ELSE V_str(FinalFallback)), <<>>, fs)

RespondFinalBranch(args, fs) ==
    IF args.t # "dict" THEN Branch(Raise("AttributeError"), <<>>, fs)
    ELSE Branch(Return(DictGet(args, "text", V_str(FinalFallback))), <<>>, fs)

UnknownActionBranch(action, args, fs) ==
    Branch(Return(V_str(<<"(Internal error: unknown action '">> \o PyStr(action)
                        \o <<"' with args ">> \o PyStr(args) \o <<")">>)),
           <<>>, fs)

\* lines 99-123: action_obj.get("action"), action_obj.get("args", {}) or {}, branch
Dispatch(action_obj, fs, now) ==
    IF action_obj.t # "dict" THEN Branch(Raise("AttributeError"), <<>>, fs)
    ELSE LET action == DictGet(action_obj, "action", V_null)
             given == DictGet(action_obj, "args", V_dict(<<>>))
             args == IF Truthy(given) THEN given ELSE V_dict(<<>>)
         IN  CASE action = V_str(<<"lookup_account">>) -> LookupAccountBranch(args, fs)
               [] action = V_str(<<"lookup_policy">>) -> LookupPolicyBranch(args, fs)
               [] action = V_str(<<"create_ticket">>) -> CreateTicketBranch(args, fs, now)
               [] action = V_str(<<"respond_final">>) -> RespondFinalBranch(args, fs)
               [] OTHER -> UnknownActionBranch(action, args, fs)

\* a diagnostic that leaves the model output out
DecodeErrorReply_generic(raw) ==
    V_str(<<"(Internal error: expected JSON action, got: ">> \o <<")">>)

DecodeErrorReply(raw) ==
    V_str(<<"(Internal error: expected JSON action, got: ">> \o raw \o <<")">>)

\* what the text-generation service does with one generate_content call
ServiceFailure == [failed |-> TRUE, text |-> <<>>]
ServiceText(text) == [failed |-> FALSE, text |-> text]
ServiceOutcomes == { ServiceText(c) : c \in Completions } \cup { ServiceFailure }

StepResult(outcome, mdl, calls, ops, fs, prompt) ==
    [outcome |-> outcome, model |-> mdl, calls |-> calls, ops |-> ops,
     files |-> fs, prompt |-> prompt]

\* LLMProcessor.run_agent_step; svc is what generate_content does when called
run_agent_step(user_text, history, mdl, api_key, svc, fs, now) ==
    LET init == IF mdl = "None" THEN _lazy_init(mdl, api_key)
                ELSE [raised |-> FALSE, model |-> mdl]
        prompt == AgentPrompt(user_text, history)
    IN  IF init.raised THEN StepResult(Raise("ValueError"), mdl, 0, <<>>, fs, <<>>)
        ELSE IF svc.failed
        THEN StepResult(Raise("ServiceError"), init.model, 1, <<>>, fs, prompt)
        ELSE LET raw == strip(svc.text)
                 parsed == json_loads(raw)
             IN  IF ~parsed.ok
                 THEN StepResult(Return(DecodeErrorReply(raw)), init.model, 1, <<>>, fs, prompt)
                 ELSE LET b == Dispatch(parsed.value, fs, now)
                      IN  StepResult(b.outcome, init.model, 1, b.ops, b.files, prompt)

\* LLMProcessor.analyze_conversation: no _lazy_init, one generate_content call
AnalysisTexts == { <<"s", "u", "m">>, <<>> }
AnalysisOutcomes == { ServiceText(c) : c \in AnalysisTexts } \cup { ServiceFailure }

analyze_conversation(history, mdl, svc) ==
    IF mdl = "None" THEN [outcome |-> Raise("AttributeError"), calls |-> 0]
    ELSE IF svc.failed THEN [outcome |-> Raise("ServiceError"), calls |-> 1]
    ELSE [outcome |-> Return(V_dict(<< <<"analysis", V_str(strip(svc.text))>> >>)),
          calls |-> 1]

\* ------------------------------------------------- utils/audio_utils.py
\* what the Speech-to-Text call (or reading the file) does
SttResults(text) == [kind |-> "results", text |-> text]
SttNoResults == [kind |-> "empty", text |-> <<>>]
SttError(e) == [kind |-> "error", text |-> e]
SttOutcomes ==
    { SttResults(<<" ", "h", "i">>), SttResults(<<" ">>), SttNoResults,
      SttError(<<"q", "u", "o", "t", "a">>) }

\* AudioProcessor.transcribe_audio: the Optional[str] it returns
transcribe_audio(stt) ==
    CASE stt.kind = "results" -> V_str(strip(stt.text))
      [] stt.kind = "empty" -> V_null
      [] OTHER -> V_str(<<"CHIRP_ERROR: ">> \o stt.text)

\* ------------------------------------------------------------- app.py
VARIABLES
    env,        \* the environment variables the program reads
    pc,         \* "init": no script run yet; "running": inside a script run;
                \* "idle": the run ended (st.rerun() or an uncaught exception);
                \* "failed": the module-level code raised
    model,      \* llm_processor.model: "None" or "GenerativeModel"
    messages,   \* st.session_state.messages
    files,      \* the mock directory
    op,         \* the handler that ran last
    last,       \* the run_agent_step / analyze_conversation call of that handler
    heard,      \* the transcription of that handler
    ui,         \* what that handler rendered last
    writers,    \* the create_ticket calls in flight when sessions share the files
    mode,       \* st.session_state.mode ("unset" before the first script run)
    system_prompt   \* llm_processor.default_system_prompt, its only prompt field

EnvValues == { V_null, V_str(<<"k">>) }
UserInputs == { <<>>, <<"h", "i">> }
Timestamps == 1..MaxTime

\* the completions a session draws from: one per branch of run_agent_step
SessionCompletions ==
    { JsonText(Obj(V_str(<<"respond_final">>), Arg1("text", V_str(Hello)))),
      JsonText(Obj(V_str(<<"lookup_account">>), Arg1("account_id", V_str(A1)))),
      JsonText(PaddedDoc),
      JsonText(V_list),
      <<"S", "o", "r", "r", "y">> }
SessionServiceOutcomes ==
    { ServiceText(c) : c \in SessionCompletions } \cup { ServiceFailure }

NoCall ==
    [invoked |-> FALSE, user_text |-> <<>>, svc |-> ServiceFailure,
     outcome |-> Return(V_null), calls |-> 0, ops |-> <<>>, prompt |-> <<>>]
NoAudio == [stt |-> SttNoResults, transcript |-> V_null, asked |-> FALSE]
Ui(event, text) == [event |-> event, text |-> text]
NoUi == Ui("none", V_null)

Message(role, content) == [role |-> V_str(<<role>>), content |-> content]

\* the two messages inserted at the head of the history
Appended_newest_first(history, user_text, response) ==
    << Message("user", user_text), Message("assistant", response) >> \o history

\* app.py:66-67 and 175-176: the two appends of a completed dispatch
Appended(history, user_text, response) ==
    history \o << Message("user", user_text), Message("assistant", response) >>

\* no concurrent create_ticket call is in flight
NoWriters == <<>>

AppInit ==
    /\ env \in [LLM_MODEL : EnvValues, GOOGLE_API_KEY : EnvValues,
                GOOGLE_CLOUD_PROJECT : EnvValues]
    /\ pc = "init"
    /\ model = "None"
    /\ messages = <<>>
    /\ files = InitialFiles
    /\ op = "none"
    /\ last = NoCall
    /\ heard = NoAudio
    /\ ui = NoUi
    /\ writers = NoWriters
    /\ mode = "unset"
    /\ system_prompt = default_system_prompt

\* app.py:17-35, executed at the start of every script run: configuration
\* checks, fresh processors, session state set only when not yet present
RunScript ==
    /\ pc \in {"init", "running", "idle"}
    /\ IF ~Truthy(env.LLM_MODEL) \/ ~Truthy(env.GOOGLE_CLOUD_PROJECT)
       THEN /\ pc' = "failed"
            /\ ui' = Ui("exception", V_str(<<"ValueError">>))
            /\ UNCHANGED <<model, messages, mode, system_prompt>>
       ELSE /\ pc' = "running"
            /\ model' = "None"
            /\ messages' = IF pc = "init" THEN <<>> ELSE messages
            /\ mode' = IF pc = "init" THEN "customer_service" ELSE mode
            /\ system_prompt' = default_system_prompt
            /\ ui' = NoUi
    /\ op' = "RunScript"
    /\ last' = NoCall
    /\ heard' = NoAudio
    /\ UNCHANGED <<env, files, writers>>

\* the common tail of handle_text_input and process_transcript: one
\* run_agent_step, two appends, render (the speech synthesis of the reply
\* changes no state of the program)
Respond(handler, user_text, svc, now, rerun) ==
    LET r == run_agent_step(user_text, messages, model, env.GOOGLE_API_KEY,
                            svc, files, now)
    IN  /\ Len(messages) + 2 <= MaxMessages
        /\ Len(r.files["tickets.json"]["tickets"]) <= MaxTickets
        /\ op' = handler
        /\ last' = [invoked |-> TRUE, user_text |-> user_text, svc |-> svc,
                    outcome |-> r.outcome, calls |-> r.calls, ops |-> r.ops,
                    prompt |-> r.prompt]
        /\ model' = r.model
        /\ files' = r.files
        /\ IF r.outcome.kind = "raise"
           THEN /\ messages' = messages
                /\ ui' = Ui("exception", V_str(<<r.outcome.exc>>))
                /\ pc' = "idle"
           ELSE /\ messages' = Appended(messages, V_str(user_text), r.outcome.val)
                /\ ui' = Ui("AI response:", r.outcome.val)
                /\ pc' = IF rerun THEN "idle" ELSE "running"
        /\ UNCHANGED <<env, writers, mode, system_prompt>>

\* app.py:164-183
handle_text_input ==
    /\ pc = "running"
    /\ \E user_input \in UserInputs :
         IF user_input = <<>>
         THEN /\ op' = "handle_text_input"
              /\ last' = NoCall
              /\ ui' = NoUi
              /\ UNCHANGED <<env, pc, model, messages, files, writers, mode, system_prompt>>
         ELSE \E svc \in SessionServiceOutcomes, now \in Timestamps :
                Respond("handle_text_input", user_input, svc, now, TRUE)
    /\ heard' = NoAudio

\* app.py:56-73
process_transcript(handler, transcript) ==
    \E svc \in SessionServiceOutcomes, now \in Timestamps :
        Respond(handler, transcript, svc, now, FALSE)

\* app.py:148-161 and 266-278: transcribe, then dispatch or report
Transcribe(handler, stt) ==
    LET transcript == transcribe_audio(stt)
    IN  /\ heard' = [stt |-> stt, transcript |-> transcript, asked |-> TRUE]
        /\ IF Truthy(transcript)
           THEN process_transcript(handler, transcript.s)
           ELSE /\ op' = handler
                /\ last' = NoCall
                /\ ui' = Ui("Audio transcription failed", V_null)
                /\ UNCHANGED <<env, pc, model, messages, files, writers, mode, system_prompt>>

Silent(handler, event) ==
    /\ op' = handler
    /\ last' = NoCall
    /\ heard' = NoAudio
    /\ ui' = Ui(event, V_null)
    /\ UNCHANGED <<env, pc, model, messages, files, writers, mode, system_prompt>>

\* app.py:87-161
handle_audio_input_cloudrun ==
    /\ pc = "running"
    /\ \E recorded \in BOOLEAN, converted \in BOOLEAN, big_enough \in BOOLEAN,
          stt \in SttOutcomes :
         CASE ~recorded -> Silent("handle_audio_input_cloudrun", "none")
           [] recorded /\ ~converted ->
                Silent("handle_audio_input_cloudrun", "Audio conversion failed")
           [] recorded /\ converted /\ ~big_enough ->
                Silent("handle_audio_input_cloudrun", "No audio captured")
           [] OTHER -> Transcribe("handle_audio_input_cloudrun", stt)

\* app.py:238-278, the upload branch of main
upload_audio ==
    /\ pc = "running"
    /\ \E converted \in BOOLEAN, stt \in SttOutcomes :
         IF ~converted THEN Silent("upload_audio", "Audio conversion failed")
         ELSE Transcribe("upload_audio", stt)

\* app.py:215-218, the Clear Conversation History button of settings_section
clear_history ==
    /\ pc = "running"
    /\ messages' = <<>>
    /\ pc' = "idle"
    /\ op' = "clear_history"
    /\ last' = NoCall
    /\ heard' = NoAudio
    /\ ui' = Ui("Conversation History Cleared", V_null)
    /\ UNCHANGED <<env, model, files, writers, mode, system_prompt>>

\* app.py:284-292, the Analyze Conversation button of main
analyze ==
    /\ pc = "running"
    /\ messages # <<>>
    /\ \E svc \in AnalysisOutcomes :
         LET r == analyze_conversation(messages, model, svc)
         IN  /\ last' = [NoCall EXCEPT !.svc = svc, !.outcome = r.outcome,
                                       !.calls = r.calls]
             /\ IF r.outcome.kind = "raise"
                THEN /\ ui' = Ui("exception", V_str(<<r.outcome.exc>>))
                     /\ pc' = "idle"
                ELSE /\ ui' = Ui("analysis", DictGet(r.outcome.val, "analysis", V_str(<<>>)))
                     /\ pc' = pc
    /\ op' = "analyze"
    /\ heard' = NoAudio
    /\ UNCHANGED <<env, model, messages, files, writers, mode, system_prompt>>

\* the methods class LLMProcessor defines (llm_utils.py:7-145)
LLMProcessorMethods ==
    { "__init__", "_lazy_init", "_build_prompt", "generate_response",
      "run_agent_step", "analyze_conversation" }

\* llm_processor.<method>() as settings_section calls it: attribute lookup on
\* the instance; a name the class does not define raises AttributeError
CallProcessorMethod(method, prompt) ==
    IF method \in LLMProcessorMethods
    THEN [outcome |-> Return(V_null), prompt |-> prompt]
    ELSE [outcome |-> Raise("AttributeError"), prompt |-> prompt]

ModeChoices == { "Customer Service", "Lead Generation" }

\* one branch of app.py:206-213: the session mode is stored first, then the
\* processor is asked to customize itself, then the sidebar confirms
SwitchMode(new_mode, method, confirmation) ==
    LET r == CallProcessorMethod(method, system_prompt)
    IN  /\ mode' = new_mode
        /\ system_prompt' = r.prompt
        /\ IF r.outcome.kind = "raise"
           THEN /\ ui' = Ui("exception", V_str(<<r.outcome.exc>>))
                /\ pc' = "idle"
           ELSE /\ ui' = Ui(confirmation, V_null)
                /\ pc' = pc

\* app.py:204-213, the mode selector of settings_section
select_mode ==
    /\ pc = "running"
    /\ \E selected \in ModeChoices :
         CASE selected = "Customer Service" /\ mode # "customer_service" ->
                SwitchMode("customer_service", "customize_for_call_center",
                           "Switched to Customer Service mode")
           [] selected = "Lead Generation" /\ mode # "lead_generation" ->
                SwitchMode("lead_generation", "customize_for_lead_generation",
                           "Switched to Lead Generation mode")
           [] OTHER ->
                /\ ui' = NoUi
                /\ UNCHANGED <<pc, mode, system_prompt>>
    /\ op' = "select_mode"
    /\ last' = NoCall
    /\ heard' = NoAudio
    /\ UNCHANGED <<env, model, messages, files, writers>>

vars == <<env, pc, model, messages, files, op, last, heard, ui, writers, mode, system_prompt>>

Init == AppInit

Next ==
    \/ RunScript
    \/ handle_text_input
    \/ handle_audio_input_cloudrun
    \/ upload_audio
    \/ select_mode
    \/ clear_history
    \/ analyze

Spec == Init /\ [][Next]_vars

\* ------------------------------------------ run_agent_step on its own
\* LLMProcessor.run_agent_step applied to every history, utterance and service
\* outcome of the input universe; messages holds the conversation_history
\* argument of the call, last its result.
Histories ==
    { <<>>,
      Appended(<<>>, V_str(<<"h", "i">>), V_null) }
Utterances == { <<"h", "i">> }

AgentInit ==
    /\ env \in [LLM_MODEL : {V_str(<<"k">>)}, GOOGLE_API_KEY : EnvValues,
                GOOGLE_CLOUD_PROJECT : {V_str(<<"k">>)}]
    /\ pc = "running"
    /\ model = "None"
    /\ messages = <<>>
    /\ files = InitialFiles
    /\ op = "none"
    /\ last = NoCall
    /\ heard = NoAudio
    /\ ui = NoUi
    /\ writers = NoWriters
    /\ mode = "unset"
    /\ system_prompt = default_system_prompt

\* LLMProcessor.__init__: a fresh processor has no model handle
NewProcessor ==
    /\ model' = "None"
    /\ op' = "__init__"
    /\ last' = NoCall
    /\ system_prompt' = default_system_prompt
    /\ UNCHANGED <<env, pc, messages, files, heard, ui, writers, mode>>

AgentStep ==
    \E user_text \in Utterances, history \in Histories,
       svc \in ServiceOutcomes, now \in Timestamps :
        LET r == run_agent_step(user_text, history, model, env.GOOGLE_API_KEY,
                                svc, files, now)
        IN  /\ Len(r.files["tickets.json"]["tickets"]) <= MaxTickets
            /\ messages' = history
            /\ op' = "run_agent_step"
            /\ last' = [invoked |-> TRUE, user_text |-> user_text, svc |-> svc,
                        outcome |-> r.outcome, calls |-> r.calls, ops |-> r.ops,
                        prompt |-> r.prompt]
            /\ model' = r.model
            /\ files' = r.files
            /\ UNCHANGED <<env, pc, heard, ui, writers, mode, system_prompt>>

AgentNext ==
    \/ NewProcessor
    \/ AgentStep

SpecAgent == AgentInit /\ [][AgentNext]_vars

\* ------------------------------- create_ticket from concurrent sessions
\* Each writer runs mock_data.create_ticket line by line against the shared
\* tickets.json: load (25), append in memory (26-30), save (31), return (32).
Writers == {1, 2}
WriterAccounts == { V_str(A1), V_str(A9) }
WriterIssues == { V_str(Billing), V_null }

EmptyDoc == ("tickets" :> <<>>)

RaceInit ==
    /\ env = [LLM_MODEL |-> V_str(<<"k">>), GOOGLE_API_KEY |-> V_str(<<"k">>),
              GOOGLE_CLOUD_PROJECT |-> V_str(<<"k">>)]
    /\ pc = "running"
    /\ model = "None"
    /\ messages = <<>>
    /\ files = InitialFiles
    /\ op = "none"
    /\ last = NoCall
    /\ heard = NoAudio
    /\ ui = NoUi
    /\ mode = "unset"
    /\ system_prompt = default_system_prompt
    /\ writers \in [Writers ->
                      [at : {"called"}, account_id : WriterAccounts,
                       issue : WriterIssues, now : Timestamps,
                       loaded : {EmptyDoc}, tickets : {EmptyDoc}, ret : {V_null}]]

\* mock_data.py:25  tickets = load_json("tickets.json")
ct_load(w) ==
    /\ writers[w].at = "called"
    /\ writers' = [writers EXCEPT ![w].at = "loaded",
                                  ![w].loaded = load_json(files, "tickets.json"),
                                  ![w].tickets = load_json(files, "tickets.json")]
    /\ UNCHANGED <<env, pc, model, messages, files, op, last, heard, ui, mode, system_prompt>>

\* mock_data.py:26-30  tickets["tickets"].append({...})
ct_append(w) ==
    /\ writers[w].at = "loaded"
    /\ writers' = [writers EXCEPT ![w].at = "appended",
                                  ![w].tickets["tickets"] =
                                      Append(@, TicketRecord(writers[w].account_id,
                                                             writers[w].issue,
                                                             writers[w].now))]
    /\ UNCHANGED <<env, pc, model, messages, files, op, last, heard, ui, mode, system_prompt>>

\* a save that re-reads the document and appends to what is there now
ct_save_merging(w) ==
    /\ writers[w].at = "appended"
    /\ files' = save_json(files, "tickets.json",
                          [load_json(files, "tickets.json") EXCEPT !["tickets"] =
                              Append(@, TicketRecord(writers[w].account_id,
                                                     writers[w].issue,
                                                     writers[w].now))])
    /\ writers' = [writers EXCEPT ![w].at = "saved"]
    /\ UNCHANGED <<env, pc, model, messages, op, last, heard, ui, mode, system_prompt>>

\* mock_data.py:31  save_json("tickets.json", tickets)
ct_save(w) ==
    /\ writers[w].at = "appended"
    /\ files' = save_json(files, "tickets.json", writers[w].tickets)
    /\ writers' = [writers EXCEPT ![w].at = "saved"]
    /\ UNCHANGED <<env, pc, model, messages, op, last, heard, ui, mode, system_prompt>>

\* mock_data.py:32  return "Ticket created."
ct_return(w) ==
    /\ writers[w].at = "saved"
    /\ writers' = [writers EXCEPT ![w].at = "returned", ![w].ret = V_str(TicketCreated)]
    /\ UNCHANGED <<env, pc, model, messages, files, op, last, heard, ui, mode, system_prompt>>

RaceNext ==
    \/ \E w \in Writers : ct_load(w)
    \/ \E w \in Writers : ct_append(w)
    \/ \E w \in Writers : ct_save(w)
    \/ \E w \in Writers : ct_return(w)

SpecRace == RaceInit /\ [][RaceNext]_vars

\* ================================================================ claims
\* the last handler called run_agent_step, the service was called and it
\* returned a completion whose text (surrounding whitespace aside) is doc's
Answered == last.invoked /\ last.calls = 1 /\ ~last.svc.failed
AnsweredDoc(doc) == Answered /\ strip(last.svc.text) = JsonText(doc)
Replied == last.outcome.kind = "return" /\ last.outcome.val.t = "str"
TicketList(fs) == fs["tickets.json"]["tickets"]
HasKey(args, key) == \E n \in 1..Len(args.d) : args.d[n][1] = key

\* C1: for every history, utterance and completion string the service returns,
\* run_agent_step returns a non-empty string and raises nothing.
C1_AlwaysRepliesWithText ==
    Answered => /\ last.outcome.kind = "return"
                /\ last.outcome.val.t = "str"
                /\ last.outcome.val.s # <<>>

\* C2: a create_ticket action with args account_id = a and issue = i leaves the
\* tickets document equal to its previous content plus exactly one record at
\* the end, with account a and issue i, and the reply contains both a and i.
C2_TicketDoc(a, i) ==
    Obj(V_str(<<"create_ticket">>), Arg2("account_id", V_str(a), "issue", V_str(i)))

C2_CreateTicketAppendsOne ==
    [][\A a \in {A1, A9}, i \in {Billing} :
         AnsweredDoc(C2_TicketDoc(a, i))' =>
            /\ \E now \in Timestamps :
                 TicketList(files') =
                     TicketList(files) \o << [account |-> V_str(a), issue |-> V_str(i),
                                              generated_on |-> now] >>
            /\ DOMAIN files'["tickets.json"] = {"tickets"}
            /\ files'["accounts.json"] = files["accounts.json"]
            /\ files'["policies.json"] = files["policies.json"]
            /\ Replied'
            /\ Contains(last'.outcome.val.s, a)
            /\ Contains(last'.outcome.val.s, i)]_vars

\* a ticket was created on top of an earlier one
C2_Witness ==
    /\ AnsweredDoc(C2_TicketDoc(A9, Billing))
    /\ Len(TicketList(files)) = 2
    /\ TicketList(files)[1].account = V_str(A1)
    /\ TicketList(files)[2].account = V_str(A9)
    /\ Replied

\* C3: every invocation calls the text-generation service exactly once and runs
\* at most one store operation: the matching one, once, for lookup_account,
\* lookup_policy and create_ticket, and none for respond_final, an unknown
\* action or undecodable output.
C3_ActionIs(name) ==
    \E a \in AccountArgs \cup PolicyArgs \cup TicketArgs \cup FinalArgs \cup OtherArgs :
        strip(last.svc.text) = JsonText(Obj(V_str(<<name>>), a))

C3_OneCallAtMostOneStoreOp ==
    last.invoked =>
        /\ last.calls = 1
        /\ Len(last.ops) <= 1
        /\ (Replied /\ C3_ActionIs("lookup_account")) => last.ops = <<"get_account">>
        /\ (Replied /\ C3_ActionIs("lookup_policy")) => last.ops = <<"get_policy">>
        /\ (Replied /\ C3_ActionIs("create_ticket")) => last.ops = <<"create_ticket">>
        /\ (C3_ActionIs("respond_final") \/ C3_ActionIs("escalate")
            \/ strip(last.svc.text) \in NonJsonTexts) => last.ops = <<>>

\* C4: two concurrent create_ticket calls on the same tickets document can both
\* return "Ticket created." while the final document holds only one of the two
\* new records.  Stated over the finished race: the document ends as the last
\* saver's snapshot plus its own record, so a record is lost exactly when both
\* calls loaded the document before either saved, and then exactly one of the
\* two records is in it.
Returned(w) == writers[w].at = "returned" /\ writers[w].ret = V_str(TicketCreated)
OwnRecord(w) == TicketRecord(writers[w].account_id, writers[w].issue, writers[w].now)
Overlapped == \A w \in Writers : writers[w].loaded = InitialFiles["tickets.json"]

C4_LostUpdateWhenOverlapping ==
    (\A w \in Writers : writers[w].at = "returned") =>
        /\ \A w \in Writers : Returned(w)
        /\ Overlapped <=> Len(TicketList(files)) = 1
        /\ Overlapped => \E w \in Writers : TicketList(files) = << OwnRecord(w) >>
        /\ ~Overlapped => \E w, x \in Writers :
                             /\ w # x
                             /\ TicketList(files) = << OwnRecord(w), OwnRecord(x) >>

\* both calls returned "Ticket created." and one of two different records is gone
C4_Witness ==
    /\ \A w \in Writers : Returned(w)
    /\ OwnRecord(1) # OwnRecord(2)
    /\ TicketList(files) = << OwnRecord(2) >>

\* C5: when the completion is not decodable as JSON, run_agent_step returns a
\* diagnostic reply containing the raw text (the completion as the code keeps
\* it in raw, surrounding whitespace stripped), makes no second model call,
\* runs no store operation and leaves the three store documents unchanged.
C5_Undecodable == Answered /\ strip(last.svc.text) \in NonJsonTexts

C5_DecodeFailureIsSurfaced ==
    [][C5_Undecodable' =>
         /\ Replied'
         /\ Contains(last'.outcome.val.s, strip(last'.svc.text))
         /\ Contains(last'.outcome.val.s, <<"(Internal error: expected JSON action, got: ">>)
         /\ last'.calls = 1
         /\ last'.ops = <<>>
         /\ files' = files]_vars

\* a fenced JSON document came back and was surfaced
C5_Witness ==
    /\ C5_Undecodable
    /\ Contains(last.svc.text, <<"[code fence]">>)
    /\ Replied
    /\ Contains(last.outcome.val.s, last.svc.text)

\* C6: for respond_final, run_agent_step returns args.text verbatim when the
\* text argument is present and the fixed non-empty fallback sentence when
\* args is empty, args is missing or text is absent.
C6_MappingArgs == { a \in FinalArgs : a.t \in {"dict", "null", "missing"} }

C6_Expected(args) ==
    IF args.t = "dict" /\ HasKey(args, "text")
    THEN (CHOOSE n \in 1..Len(args.d) : args.d[n][1] = "text")
    ELSE 0

C6_RespondFinalVerbatim ==
    /\ FinalFallback # <<>>
    /\ \A args \in C6_MappingArgs :
         AnsweredDoc(Obj(V_str(<<"respond_final">>), args)) =>
            /\ last.outcome.kind = "return"
            /\ IF C6_Expected(args) # 0
               THEN last.outcome.val = args.d[C6_Expected(args)][2]
               ELSE last.outcome.val = V_str(FinalFallback)

\* respond_final came back with an empty text and the empty text was returned
C6_Witness ==
    /\ AnsweredDoc(Obj(V_str(<<"respond_final">>), Arg1("text", V_str(<<>>))))
    /\ last.outcome = Return(V_str(<<>>))

\* C7: for lookup_account (and lookup_policy) the reply contains the stored
\* record when the key is in the document, contains the absent marker, without
\* raising, when the key is not there or the argument is missing, and the
\* accounts, policies and tickets documents are left unchanged.
C7_Mapping(argset) == { a \in argset : a.t \in {"dict", "null", "missing"} }
C7_Key(args, key) ==
    IF args.t = "dict" /\ HasKey(args, key)
    THEN args.d[CHOOSE n \in 1..Len(args.d) : args.d[n][1] = key][2]
    ELSE V_null
AbsentMarker == <<"None">>

C7_Lookup(name, key, file, args) ==
    AnsweredDoc(Obj(V_str(<<name>>), args))' =>
        /\ Replied'
        /\ LET k == C7_Key(args, key)
           IN  IF k.t = "str" /\ k.s \in DOMAIN files[file]
               THEN Contains(last'.outcome.val.s, PyStr(files[file][k.s]))
               ELSE Contains(last'.outcome.val.s, AbsentMarker)
        /\ files' = files

C7_LookupReadsOnly ==
    [][/\ \A args \in C7_Mapping(AccountArgs) :
            C7_Lookup("lookup_account", "account_id", "accounts.json", args)
       /\ \A args \in C7_Mapping(PolicyArgs) :
            C7_Lookup("lookup_policy", "policy_key", "policies.json", args)]_vars

\* a known account was looked up and its record is in the reply
C7_Witness ==
    /\ AnsweredDoc(Obj(V_str(<<"lookup_account">>), Arg1("account_id", V_str(A1))))
    /\ Replied
    /\ Contains(last.outcome.val.s, PyStr(GoldPlan))

\* C8: missing configuration is fatal at startup only: once the module-level
\* code has completed, no text submission, transcript dispatch or analysis
\* fails because GOOGLE_API_KEY or LLM_MODEL is missing.
ConfigurationError == Raise("ValueError")

C8_NoConfigFailureAfterStartup ==
    pc \in {"running", "idle"} => last.outcome # ConfigurationError

\* C9: st.session_state.messages changes only by a completed dispatch appending
\* the user utterance and then the assistant reply at its end, or by Clear
\* Conversation History resetting it to the empty list.
C9_MessagesAppendOnly ==
    [][\/ messages' = messages
       \/ /\ op' \in {"handle_text_input", "handle_audio_input_cloudrun", "upload_audio"}
          /\ last'.invoked
          /\ last'.outcome.kind = "return"
          /\ Len(messages') = Len(messages) + 2
          /\ SubSeq(messages', 1, Len(messages)) = messages
          /\ messages'[Len(messages) + 1] =
                 [role |-> V_str(<<"user">>), content |-> V_str(last'.user_text)]
          /\ messages'[Len(messages) + 2] =
                 [role |-> V_str(<<"assistant">>), content |-> last'.outcome.val]
       \/ /\ op' = "clear_history"
          /\ messages' = <<>>]_vars

\* a second dispatch completed on top of the first one's two messages
C9_Witness ==
    /\ Len(messages) = 4
    /\ last.invoked
    /\ last.outcome.kind = "return"
    /\ messages[2].content # messages[4].content
    /\ messages[4].content = last.outcome.val

\* C10: when the transcription service call fails, transcribe_audio yields an
\* absent result, the UI reports the failure, and the request makes no model
\* call, runs no store operation and appends nothing to the history.
C10_FailedTranscriptionStopsThere ==
    [][(heard'.asked /\ heard'.stt.kind = "error") =>
         /\ heard'.transcript = V_null
         /\ ui'.event = "Audio transcription failed"
         /\ ~last'.invoked
         /\ last'.calls = 0
         /\ last'.ops = <<>>
         /\ files' = files
         /\ messages' = messages]_vars

\* C11: switching the mode selector to the other persona completes without
\* error and sets the adapter's current system prompt to that persona's
\* prompt, so that the prompt always agrees with st.session_state.mode.
PersonaPrompt(m) ==
    IF m = "lead_generation" THEN <<"lead generation persona prompt">>
    ELSE default_system_prompt

C11_ModeSwitchSetsPrompt ==
    [][(op' = "select_mode" /\ mode' # mode) =>
          /\ ui'.event # "exception"
          /\ system_prompt' = PersonaPrompt(mode')]_vars

====
